---- MODULE Spec2Model ----
(***************************************************************************)
(* A model of the game graph of compute.py (class Graph, _Vertex,          *)
(* _GameVertex), of the graph loader of read.py and of the two             *)
(* recommendation entry points.                                            *)
(*                                                                         *)
(* Representation.                                                         *)
(*  - A name (a game title, a genre name, ...) is a Python str.  The model *)
(*    writes a name as a natural number: its rank in Python's str order,   *)
(*    so that = is str equality and < is str comparison.                   *)
(*  - A vertex object is identified by its key <<name, kind>> in           *)
(*    Graph._vertices (the dict holds one object per key and the objects   *)
(*    hash by identity); a neighbours set is a set of such keys.  The      *)
(*    attribute .item of a vertex is stored separately, as the code does.  *)
(*  - A Python float that the code obtains as len(a) / len(b) is written   *)
(*    as the fraction <<n, d>> in lowest terms; float addition is modelled *)
(*    as exact addition of fractions.                                      *)
(*  - None is the string "None"; a raised ValueError is recorded in        *)
(*    call.raised.                                                         *)
(***************************************************************************)
EXTENDS Integers, Sequences, FiniteSets

VARIABLES vertices, call, ret, pc

vars == <<vertices, call, ret, pc>>

(***************************************************************************)
(* Bounds of the model.                                                    *)
(***************************************************************************)
\* kinds used by the model: "game" and two of the four attribute kinds
Kinds == {"game", "genre", "tag"}
AttrKinds == Kinds \ {"game"}
\* the keys offered to add_vertex / add_edge in the specification Spec: two
\* games, and a genre and a tag that carry the same name as the first game
GameNames == {1, 2}
AttrNames == {1}
Keys == (GameNames \X {"game"}) \cup (AttrNames \X AttrKinds)
\* the catalog loaded in the specification SpecLoad: three game titles, two
\* genre names and one tag name (equal to the first genre name)
Titles == {1, 2, 3}
LoadNames(kind) == IF kind = "genre" THEN {1, 2} ELSE {1}
\* the largest number of edges of a graph built in Spec
MaxEdges == 3
\* the largest number of edges of a graph loaded in SpecLoad
MaxLoadEdges == 5
\* the longest attribute list of one add_game_neighbours call
MaxListLen == 2
\* the longest input_game_list of recommend_multiple_games
MaxInputs == 2
\* the largest limit of recommend_multiple_games
MaxLimit == 2

None == "None"

(***************************************************************************)
(* Python values                                                           *)
(***************************************************************************)
RECURSIVE Gcd(_, _)
Gcd(a, b) == IF b = 0 THEN a ELSE Gcd(b, a % b)

\* n / d for two lengths n >= 0, d > 0: the float, as a fraction in lowest terms
Div(n, d) == <<n \div Gcd(n, d), d \div Gcd(n, d)>>

\* the float 0.0
Zero == <<0, 1>>

\* x + y on floats
FAdd(x, y) == Div(x[1] * y[2] + y[1] * x[2], x[2] * y[2])

\* x < y on floats
FLess(x, y) == x[1] * y[2] < y[1] * x[2]

\* x in list
InList(x, list) == \E i \in 1..Len(list) : list[i] = x

\* the elements of a list
Range(list) == {list[i] : i \in 1..Len(list)}

\* the lists of length at most n over S
SeqUpTo(S, n) == UNION {[1..m -> S] : m \in 0..n}

(***************************************************************************)
(* _Vertex, _GameVertex                                                    *)
(***************************************************************************)
\* the item is stored without its kind
VertexItemNameOnly(item, kind) == <<item>>

\* the value add_vertex passes as the vertex's item: the tuple (item, kind)
VertexItem(item, kind) == <<item, kind>>

\* _Vertex.__init__
NewVertex(item, kind) ==
  [item |-> item, kind |-> kind, neighbours |-> {}]

\* _GameVertex.__init__
NewGameVertex(item, kind, price, rating_score, platform) ==
  [item |-> item, kind |-> kind, neighbours |-> {},
   price |-> price, rating_score |-> rating_score, platform |-> platform]

\* _Vertex.degree
Degree(V, k) == Cardinality(V[k].neighbours)

(***************************************************************************)
(* Graph: the pure part of each method, on a value V of _vertices          *)
(***************************************************************************)
\* add_vertex without the test (item, kind) not in self._vertices
AddVertexToOverwrite(V, item, kind, price, rating_score, platform) ==
  [k \in DOMAIN V \cup {<<item, kind>>} |->
     IF k = <<item, kind>>
     THEN IF kind = "game"
          THEN NewGameVertex(VertexItem(item, kind), kind,
                             price, rating_score, platform)
          ELSE NewVertex(VertexItem(item, kind), kind)
     ELSE V[k]]

\* add_vertex
AddVertexTo(V, item, kind, price, rating_score, platform) ==
  IF <<item, kind>> \notin DOMAIN V
  THEN [k \in DOMAIN V \cup {<<item, kind>>} |->
          IF k = <<item, kind>>
          THEN IF kind = "game"
               THEN NewGameVertex(VertexItem(item, kind), kind,
                                  price, rating_score, platform)
               ELSE NewVertex(VertexItem(item, kind), kind)
          ELSE V[k]]
  ELSE V

\* add_edge raises ValueError
AddEdgeRaises(V, item1, item2, item1_kind, item2_kind) ==
  ~(<<item1, item1_kind>> \in DOMAIN V /\ <<item2, item2_kind>> \in DOMAIN V)

\* add_edge without v2.neighbours.add(v1)
AddEdgeToOneWay(V, item1, item2, item1_kind, item2_kind) ==
  [V EXCEPT ![<<item1, item1_kind>>].neighbours = @ \cup {<<item2, item2_kind>>}]

\* add_edge, when it does not raise: v1.neighbours.add(v2); v2.neighbours.add(v1)
AddEdgeTo(V, item1, item2, item1_kind, item2_kind) ==
  LET v1 == <<item1, item1_kind>>
      v2 == <<item2, item2_kind>>
      W  == [V EXCEPT ![v1].neighbours = @ \cup {v2}]
  IN  [W EXCEPT ![v2].neighbours = @ \cup {v1}]

\* adjacent
Adjacent(V, item1, item2, item1_kind, item2_kind) ==
  IF <<item1, item1_kind>> \in DOMAIN V /\ <<item2, item2_kind>> \in DOMAIN V
  THEN \E v2 \in V[<<item1, item1_kind>>].neighbours :
          V[v2].item = <<item2, item2_kind>>
  ELSE FALSE

\* the number of edges (a self-loop counts as one)
NumEdges(V) ==
  LET P == {p \in (DOMAIN V) \X (DOMAIN V) : p[2] \in V[p[1]].neighbours}
      L == {a \in DOMAIN V : a \in V[a].neighbours}
  IN  (Cardinality(P) + Cardinality(L)) \div 2


\* get_vertex raises ValueError
GetVertexRaises(V, item, item_kind) == <<item, item_kind>> \notin DOMAIN V

\* similarity_score without union.add(x.item)
SimilarityScoreNoUnionAdd(V, self, other, kinds) ==
  IF Degree(V, self) = 0 \/ Degree(V, other) = 0
  THEN Zero
  ELSE LET union == {V[n].item :
                       n \in {m \in V[other].neighbours : InList(V[m].kind, kinds)}}
           inKinds == {x \in V[self].neighbours : InList(V[x].kind, kinds)}
           intersect ==
             {V[x].item : x \in {y \in inKinds : y \in V[other].neighbours}}
       IN  IF Cardinality(union) = 0
           THEN Zero
           ELSE Div(Cardinality(intersect), Cardinality(union))

\* similarity_score without the test x in other.neighbours
SimilarityScoreNoMemberTest(V, self, other, kinds) ==
  IF Degree(V, self) = 0 \/ Degree(V, other) = 0
  THEN Zero
  ELSE LET union0 == {V[n].item :
                        n \in {m \in V[other].neighbours : InList(V[m].kind, kinds)}}
           inKinds == {x \in V[self].neighbours : InList(V[x].kind, kinds)}
           union == union0 \cup {V[x].item : x \in inKinds}
           intersect == {V[x].item : x \in inKinds}
       IN  IF Cardinality(union) = 0
           THEN Zero
           ELSE Div(Cardinality(intersect), Cardinality(union))

\* _GameVertex.similarity_score, of the vertex with key self against the
\* vertex with key other
SimilarityScore(V, self, other, kinds) ==
  IF Degree(V, self) = 0 \/ Degree(V, other) = 0
  THEN Zero
  ELSE LET union0 == {V[n].item :
                        n \in {m \in V[other].neighbours : InList(V[m].kind, kinds)}}
           inKinds == {x \in V[self].neighbours : InList(V[x].kind, kinds)}
           union == union0 \cup {V[x].item : x \in inKinds}
           intersect ==
             {V[x].item : x \in {y \in inKinds : y \in V[other].neighbours}}
       IN  IF Cardinality(union) = 0
           THEN Zero
           ELSE Div(Cardinality(intersect), Cardinality(union))

\* get_similarity_score raises ValueError
GetSimilarityScoreRaises(V, item1, item2, item1_kind, item2_kind) ==
  <<item1, item1_kind>> \notin DOMAIN V \/ <<item2, item2_kind>> \notin DOMAIN V

\* get_similarity_score, when it does not raise
GetSimilarityScore(V, item1, item2, item1_kind, item2_kind, kinds) ==
  SimilarityScore(V, <<item1, item1_kind>>, <<item2, item2_kind>>, kinds)

(***************************************************************************)
(* Optional arguments: None is <<"None">>, a given value x is <<"given", x>> *)
(***************************************************************************)
NoneArg == <<"None">>
Given(x) == <<"given", x>>

\* the truth value Python gives an Optional[float]: None and 0 are false
TruthyNum(o) == o[1] = "given" /\ o[2] # 0

\* the truth value Python gives an Optional[list]: None and [] are false
TruthyList(o) == o[1] = "given" /\ Len(o[2]) # 0

\* get_filtered_game_vertices with `is not None` tests in place of truth values
GetFilteredGameVerticesZeroGiven(V, max_price, platforms, min_rating_score) ==
  {k \in DOMAIN V :
     /\ V[k].kind = "game"
     /\ ~(max_price[1] = "given" /\ V[k].price > max_price[2])
     /\ ~(platforms[1] = "given" /\
          \A i \in 1..Len(V[k].platform) : ~InList(V[k].platform[i], platforms[2]))
     /\ ~(min_rating_score[1] = "given" /\ V[k].rating_score < min_rating_score[2])}

\* get_filtered_game_vertices: the keys of the vertices it returns
GetFilteredGameVertices(V, max_price, platforms, min_rating_score) ==
  {k \in DOMAIN V :
     /\ V[k].kind = "game"
     /\ ~(TruthyNum(max_price) /\ V[k].price > max_price[2])
     /\ ~(TruthyList(platforms) /\
          \A i \in 1..Len(V[k].platform) : ~InList(V[k].platform[i], platforms[2]))
     /\ ~(TruthyNum(min_rating_score) /\ V[k].rating_score < min_rating_score[2])}

(***************************************************************************)
(* sorted()                                                                *)
(***************************************************************************)
\* a set as a list, in some order (the iteration order of a Python set)
RECURSIVE SetToSeq(_)
SetToSeq(S) ==
  IF S = {} THEN << >>
  ELSE LET x == CHOOSE y \in S : TRUE IN <<x>> \o SetToSeq(S \ {x})

\* sorted(list, reverse=True) of a list of names
RECURSIVE SortedNamesDesc(_)
SortedNamesDesc(list) ==
  IF Len(list) = 0 THEN << >>
  ELSE LET rest == SortedNamesDesc(Tail(list))
           x    == Head(list)
           n    == Cardinality({i \in 1..Len(rest) : rest[i] > x})
       IN  SubSeq(rest, 1, n) \o <<x>> \o SubSeq(rest, n + 1, Len(rest))

\* sorted(list) of a list of names: ascending, by insertion
RECURSIVE SortedNames(_)
SortedNames(list) ==
  IF Len(list) = 0 THEN << >>
  ELSE LET rest == SortedNames(Tail(list))
           x    == Head(list)
           n    == Cardinality({i \in 1..Len(rest) : rest[i] < x})
       IN  SubSeq(rest, 1, n) \o <<x>> \o SubSeq(rest, n + 1, Len(rest))

\* sorted(keys, reverse=True) of a set of floats: descending
RECURSIVE SortedScoresDesc(_)
SortedScoresDesc(S) ==
  IF S = {} THEN << >>
  ELSE LET m == CHOOSE x \in S : \A y \in S : ~FLess(x, y)
       IN  <<m>> \o SortedScoresDesc(S \ {m})

\* the concatenation of a list of lists
RECURSIVE Flatten(_)
Flatten(lists) ==
  IF Len(lists) = 0 THEN << >> ELSE Head(lists) \o Flatten(Tail(lists))

(***************************************************************************)
(* recommend_games                                                         *)
(***************************************************************************)
\* recommend_games raises ValueError (from get_vertex)
RecommendGamesRaises(V, game) == GetVertexRaises(V, game[1], "game")

\* all_games keeps the input game (the remove is left out)
AllGamesKeepInput(V, game, max_price, platforms, min_rating_score) ==
  GetFilteredGameVertices(V, max_price, platforms, min_rating_score)

\* all_games, once the input game's vertex is removed from it
AllGames(V, game, max_price, platforms, min_rating_score) ==
  GetFilteredGameVertices(V, max_price, platforms, min_rating_score)
    \ {<<game[1], "game">>}

\* the loop over all_games: each candidate with its title (game1.item[0]) and
\* its similarity score to the input game, as <<key, title, score>>
ScoredGames(V, game, kinds, all_games) ==
  {<<k, V[k].item[1],
     GetSimilarityScore(V, game[1], V[k].item[1], "game", "game", kinds)>> :
     k \in all_games}

\* the titles game_dict holds under one score, sorted
TitlesWithScore(scored, score) ==
  LET entries == SetToSeq({e \in scored : e[3] = score})
  IN  SortedNames([i \in 1..Len(entries) |-> entries[i][2]])

\* recommend_games, when it does not raise: the list of <<title, score>>
RecommendGames(V, game, kinds, max_price, platforms, min_rating_score) ==
  LET all_games == AllGames(V, game, max_price, platforms, min_rating_score)
      scored == ScoredGames(V, game, kinds, all_games)
      order == SortedScoresDesc({e[3] : e \in scored} \ {Zero})
  IN  Flatten([i \in 1..Len(order) |->
         LET titles == TitlesWithScore(scored, order[i])
         IN  [j \in 1..Len(titles) |-> <<titles[j], order[i]>>]])

(***************************************************************************)
(* recommend_multiple_games                                                *)
(***************************************************************************)
\* title == tup for a str title and a tuple tup of input_game_list: a str
\* and a tuple are never equal
StrEqTuple(title, tup) == FALSE

\* game_tup[0] in input_game_list
TitleInInputList(title, input_game_list) ==
  \E i \in 1..Len(input_game_list) : StrEqTuple(title, input_game_list[i])

\* one pass of the loop that fills game_dict; the dict is the list of its
\* entries in insertion order
DictAdd(game_dict, game_tup, input_game_list) ==
  IF TitleInInputList(game_tup[1], input_game_list)
  THEN game_dict
  ELSE IF \E i \in 1..Len(game_dict) : game_dict[i].title = game_tup[1]
       THEN [i \in 1..Len(game_dict) |->
               IF game_dict[i].title = game_tup[1]
               THEN [title |-> game_dict[i].title,
                     similarity_score |->
                       FAdd(game_dict[i].similarity_score, game_tup[2]),
                     counter |-> game_dict[i].counter + 1]
               ELSE game_dict[i]]
       ELSE Append(game_dict, [title |-> game_tup[1],
                               similarity_score |-> game_tup[2],
                               counter |-> 1])

\* game_dict after the loop over list_of_games_with_score[1..n]
RECURSIVE GameDict(_, _, _)
GameDict(list_of_games_with_score, n, input_game_list) ==
  IF n = 0 THEN << >>
  ELSE DictAdd(GameDict(list_of_games_with_score, n - 1, input_game_list),
               list_of_games_with_score[n], input_game_list)

\* the sort key with its two parts swapped: (similarity_score, counter)
KeyLessScoreFirst(a, b) ==
  \/ FLess(a.similarity_score, b.similarity_score)
  \/ a.similarity_score = b.similarity_score /\ a.counter < b.counter

\* the sort key of a dict entry is less than that of another:
\* (counter, similarity_score) compared as tuples
KeyLess(a, b) ==
  \/ a.counter < b.counter
  \/ a.counter = b.counter /\ FLess(a.similarity_score, b.similarity_score)

\* sorted(game_dict, key=..., reverse=True): descending and stable (entries
\* with equal keys keep their insertion order), as a list of entries
RECURSIVE SortedByKeyDesc(_)
SortedByKeyDesc(entries) ==
  IF Len(entries) = 0 THEN << >>
  ELSE LET n    == Len(entries)
           rest == SortedByKeyDesc(SubSeq(entries, 1, n - 1))
           x    == entries[n]
           m    == Cardinality({i \in 1..Len(rest) : ~KeyLess(rest[i], x)})
       IN  SubSeq(rest, 1, m) \o <<x>> \o SubSeq(rest, m + 1, Len(rest))

\* sorted_game_list[:limit], for limit >= 1
Slice(list, limit) ==
  SubSeq(list, 1, IF limit < Len(list) THEN limit ELSE Len(list))

\* recommend_multiple_games raises ValueError (from recommend_games)
RecommendMultipleGamesRaises(V, input_game_list) ==
  \E i \in 1..Len(input_game_list) : RecommendGamesRaises(V, input_game_list[i])

\* recommend_multiple_games, when it does not raise: the list of titles
RecommendMultipleGames(V, input_game_list, limit, kinds, max_price, platforms, min_rating_score) ==
  LET list_of_games_with_score ==
        Flatten([i \in 1..Len(input_game_list) |->
                   RecommendGames(V, input_game_list[i], kinds,
                                  max_price, platforms, min_rating_score)])
      game_dict == GameDict(list_of_games_with_score,
                            Len(list_of_games_with_score), input_game_list)
      sorted_game_list == SortedByKeyDesc(game_dict)
  IN  Slice([i \in 1..Len(sorted_game_list) |-> sorted_game_list[i].title], limit)

(***************************************************************************)
(* read.py                                                                 *)
(***************************************************************************)
\* add_game_neighbours: for element in vertex_list: add_vertex(element, kind);
\* add_edge(game, element, "game", kind).  The value is the graph it leaves
\* and whether add_edge raised ValueError (which ends the loop).
RECURSIVE AddGameNeighboursTo(_, _, _, _)
AddGameNeighboursTo(V, vertex_list, kind, game) ==
  IF Len(vertex_list) = 0
  THEN [vertices |-> V, raised |-> FALSE]
  ELSE LET element == Head(vertex_list)
           W == AddVertexTo(V, element, kind, None, None, None)
       IN  IF AddEdgeRaises(W, game, element, "game", kind)
           THEN [vertices |-> W, raised |-> TRUE]
           ELSE AddGameNeighboursTo(AddEdgeTo(W, game, element, "game", kind),
                                    Tail(vertex_list), kind, game)

(***************************************************************************)
(* State machine                                                           *)
(*   vertices  Graph._vertices                                             *)
(*   call      the last call made: its name, its arguments, whether it     *)
(*             raised ValueError                                           *)
(*   ret       the value the last call returned                            *)
(*   pc        the position of main.py: "load" while the graph is built,   *)
(*             "input" before a query, "output" after it                   *)
(***************************************************************************)
\* what add_vertex may be given for a game: (price, rating_score, platform)
GameData == {<<5, 80, <<"windows">> >>, <<20, 40, <<"mac", "linux">> >>}

\* the rows of the catalog: title -> (price, rating_score, platforms)
Catalog(title) ==
  CASE title = 1 -> <<5, 80, <<"windows">> >>
    [] title = 2 -> <<20, 40, <<"mac", "linux">> >>
    [] OTHER     -> <<10, 60, <<"windows", "mac">> >>

\* the kinds lists given to get_similarity_score in Spec
ScoreKinds == {<<"genre">>, <<"genre", "tag">>, <<"game", "genre", "tag">>}

\* the kinds lists given to recommend_games in SpecLoad
RecKinds == {<<"genre">>, <<"genre", "tag">>}

\* the filter arguments given to recommend_games in SpecLoad
RecFilters ==
  {[max_price |-> NoneArg, platforms |-> NoneArg, min_rating_score |-> NoneArg],
   [max_price |-> Given(10), platforms |-> NoneArg, min_rating_score |-> NoneArg]}

\* the arguments given to get_filtered_game_vertices in SpecLoad
FilterPrices == {NoneArg, Given(0), Given(10)}
FilterPlatforms == {NoneArg, Given(<< >>), Given(<<"linux">>)}
FilterRatings == {NoneArg, Given(0), Given(60)}

\* the (kinds, filter arguments) given to recommend_multiple_games in SpecLoad
MultiArgs ==
  {<<<<"genre", "tag">>,
     [max_price |-> NoneArg, platforms |-> NoneArg, min_rating_score |-> NoneArg]>>,
   <<<<"genre">>,
     [max_price |-> Given(10), platforms |-> NoneArg, min_rating_score |-> NoneArg]>>}

\* Graph.__init__, and main.py about to load the graph
Init ==
  /\ vertices = << >>
  /\ call = [op |-> "init", args |-> << >>, raised |-> FALSE]
  /\ ret = None
  /\ pc = "load"

\* graph.add_vertex(item, kind, price, rating_score, platform)
AddVertex(item, kind, price, rating_score, platform) ==
  /\ vertices' = AddVertexTo(vertices, item, kind, price, rating_score, platform)
  /\ call' = [op |-> "add_vertex",
              args |-> <<item, kind, price, rating_score, platform>>,
              raised |-> FALSE]
  /\ ret' = None
  /\ UNCHANGED pc

\* add_edge that adds a missing endpoint as a new vertex instead of raising
AddEdgeCreatesMissing(item1, item2, item1_kind, item2_kind) ==
  /\ vertices' =
       AddEdgeTo(AddVertexTo(AddVertexTo(vertices, item1, item1_kind,
                                         None, None, None),
                             item2, item2_kind, None, None, None),
                 item1, item2, item1_kind, item2_kind)
  /\ call' = [op |-> "add_edge",
              args |-> <<item1, item2, item1_kind, item2_kind>>,
              raised |-> FALSE]
  /\ ret' = None
  /\ UNCHANGED pc

\* graph.add_edge(item1, item2, item1_kind, item2_kind)
AddEdge(item1, item2, item1_kind, item2_kind) ==
  /\ vertices' =
       IF AddEdgeRaises(vertices, item1, item2, item1_kind, item2_kind)
       THEN vertices
       ELSE AddEdgeTo(vertices, item1, item2, item1_kind, item2_kind)
  /\ call' = [op |-> "add_edge",
              args |-> <<item1, item2, item1_kind, item2_kind>>,
              raised |-> AddEdgeRaises(vertices, item1, item2, item1_kind, item2_kind)]
  /\ ret' = None
  /\ UNCHANGED pc

\* add_game_neighbours(graph, vertex_list, kind, game)
AddGameNeighbours(vertex_list, kind, game) ==
  LET r == AddGameNeighboursTo(vertices, vertex_list, kind, game)
  IN  /\ vertices' = r.vertices
      /\ call' = [op |-> "add_game_neighbours",
                  args |-> <<vertex_list, kind, game>>,
                  raised |-> r.raised]
      /\ ret' = None
      /\ UNCHANGED pc

\* graph.get_similarity_score(item1, item2, item1_kind, item2_kind, kinds)
GetSimilarityScoreCall(item1, item2, item1_kind, item2_kind, kinds) ==
  /\ call' = [op |-> "get_similarity_score",
              args |-> <<item1, item2, item1_kind, item2_kind, kinds>>,
              raised |-> GetSimilarityScoreRaises(vertices, item1, item2,
                                                  item1_kind, item2_kind)]
  /\ ret' = IF GetSimilarityScoreRaises(vertices, item1, item2, item1_kind, item2_kind)
            THEN None
            ELSE GetSimilarityScore(vertices, item1, item2,
                                    item1_kind, item2_kind, kinds)
  /\ UNCHANGED <<vertices, pc>>

\* load_game_graph returns: main.py goes on to its input loop
FinishLoad ==
  /\ pc = "load"
  /\ pc' = "input"
  /\ call' = [op |-> "load_game_graph", args |-> << >>, raised |-> FALSE]
  /\ ret' = None
  /\ UNCHANGED vertices

\* graph.get_filtered_game_vertices(max_price, platforms, min_rating_score)
GetFilteredGameVerticesCall(max_price, platforms, min_rating_score) ==
  /\ pc = "input"
  /\ pc' = "output"
  /\ call' = [op |-> "get_filtered_game_vertices",
              args |-> <<max_price, platforms, min_rating_score>>,
              raised |-> FALSE]
  /\ ret' = GetFilteredGameVertices(vertices, max_price, platforms, min_rating_score)
  /\ UNCHANGED vertices

\* graph.recommend_games(game, kinds, max_price, platforms, min_rating_score)
RecommendGamesCall(game, kinds, f) ==
  /\ pc = "input"
  /\ pc' = "output"
  /\ call' = [op |-> "recommend_games", args |-> <<game, kinds, f>>,
              raised |-> RecommendGamesRaises(vertices, game)]
  /\ ret' = IF RecommendGamesRaises(vertices, game)
            THEN None
            ELSE RecommendGames(vertices, game, kinds, f.max_price, f.platforms,
                                f.min_rating_score)
  /\ UNCHANGED vertices

\* graph.recommend_multiple_games(input_game_list, limit, kinds, max_price,
\* platforms, min_rating_score)
RecommendMultipleGamesCall(input_game_list, limit, kinds, f) ==
  /\ pc = "input"
  /\ pc' = "output"
  /\ call' = [op |-> "recommend_multiple_games",
              args |-> <<input_game_list, limit, kinds, f>>,
              raised |-> RecommendMultipleGamesRaises(vertices, input_game_list)]
  /\ ret' = IF RecommendMultipleGamesRaises(vertices, input_game_list)
            THEN None
            ELSE RecommendMultipleGames(vertices, input_game_list, limit, kinds,
                                        f.max_price, f.platforms, f.min_rating_score)
  /\ UNCHANGED vertices

\* the result is shown and the user answers "yes": the next round of input
Continue ==
  /\ pc = "output"
  /\ pc' = "input"
  /\ call' = [op |-> "continue", args |-> << >>, raised |-> FALSE]
  /\ ret' = None
  /\ UNCHANGED vertices

(***************************************************************************)
(* Spec: a client of class Graph that makes any sequence of add_vertex,    *)
(* add_edge, add_game_neighbours and get_similarity_score calls.           *)
(***************************************************************************)
Next ==
  \/ \E item \in AttrNames, kind \in AttrKinds :
        AddVertex(item, kind, None, None, None)
  \/ \E item \in GameNames, d \in GameData :
        AddVertex(item, "game", d[1], d[2], d[3])
  \/ \E k1 \in Keys, k2 \in Keys :
        /\ AddEdge(k1[1], k2[1], k1[2], k2[2])
        /\ NumEdges(vertices') <= MaxEdges
  \/ \E vertex_list \in SeqUpTo(AttrNames, MaxListLen), kind \in AttrKinds,
        game \in GameNames :
        /\ AddGameNeighbours(vertex_list, kind, game)
        /\ NumEdges(vertices') <= MaxEdges
  \/ \E item1 \in GameNames, item2 \in GameNames, kinds \in ScoreKinds :
        GetSimilarityScoreCall(item1, item2, "game", "game", kinds)

Spec == Init /\ [][Next]_vars

(***************************************************************************)
(* SpecLoad: main.py.  The graph is loaded row by row as process_row does  *)
(* (the game's vertex, then add_game_neighbours for its attribute lists),  *)
(* and is then queried in a loop.                                          *)
(***************************************************************************)
LoadGame(title) ==
  /\ pc = "load"
  /\ AddVertex(title, "game", Catalog(title)[1], Catalog(title)[2], Catalog(title)[3])

LoadGameNeighbours(vertex_list, kind, game) ==
  /\ pc = "load"
  /\ <<game, "game">> \in DOMAIN vertices
  /\ AddGameNeighbours(vertex_list, kind, game)
  /\ NumEdges(vertices') <= MaxLoadEdges

NextLoad ==
  \/ \E title \in Titles : LoadGame(title)
  \/ \E kind \in AttrKinds, game \in Titles :
       \E vertex_list \in SeqUpTo(LoadNames(kind), MaxListLen) \ {<< >>} :
          LoadGameNeighbours(vertex_list, kind, game)
  \/ FinishLoad
  \/ \E max_price \in FilterPrices, platforms \in FilterPlatforms,
        min_rating_score \in FilterRatings :
        GetFilteredGameVerticesCall(max_price, platforms, min_rating_score)
  \/ \E game \in Titles \X {"game"}, kinds \in RecKinds, f \in RecFilters :
        RecommendGamesCall(game, kinds, f)
  \/ \E input_game_list \in SeqUpTo(Titles \X {"game"}, MaxInputs),
        limit \in 1..MaxLimit, a \in MultiArgs :
        RecommendMultipleGamesCall(input_game_list, limit, a[1], a[2])
  \/ Continue

SpecLoad == Init /\ [][NextLoad]_vars

(***************************************************************************)
(* Properties of the recommendation functions, checked under SpecLoad      *)
(***************************************************************************)
\* the last call was op and returned (did not raise)
Returned(op) == call.op = op /\ ~call.raised

\* the titles of a list of <<title, score>>
TitlesOf(list) == {list[i][1] : i \in 1..Len(list)}

\* C1: the list recommend_multiple_games returns holds no title of an input
\* game.
C1_NoInputGameRecommended ==
  Returned("recommend_multiple_games") =>
    \A i \in 1..Len(ret) : \A j \in 1..Len(call.args[1]) :
       ret[i] # call.args[1][j][1]

\* C2: every entry of the list recommend_games(g, ...) returns is the title of
\* a game vertex, is not g's title, has a non-zero similarity score to g for
\* the given kinds, and occurs once in the list.
C2_RecommendGamesExclusions ==
  Returned("recommend_games") =>
    LET g == call.args[1]
        kinds == call.args[2]
    IN  \A i \in 1..Len(ret) :
          /\ <<ret[i][1], "game">> \in DOMAIN vertices
          /\ vertices[<<ret[i][1], "game">>].kind = "game"
          /\ ret[i][1] # g[1]
          /\ SimilarityScore(vertices, <<g[1], "game">>, <<ret[i][1], "game">>,
                             kinds) # Zero
          /\ \A j \in 1..Len(ret) : ret[j][1] = ret[i][1] => j = i

\* C2 witness: recommend_games returned a non-empty list for a game that
\* passes the filters itself (so the removal of the input game acted) while
\* another game of the graph is left out
C2_Witness ==
  /\ Returned("recommend_games")
  /\ Len(ret) >= 1
  /\ <<call.args[1][1], "game">> \in
       GetFilteredGameVertices(vertices, call.args[3].max_price,
                               call.args[3].platforms,
                               call.args[3].min_rating_score)
  /\ SimilarityScore(vertices, <<call.args[1][1], "game">>,
                     <<call.args[1][1], "game">>, call.args[2]) # Zero
  /\ \E t \in Titles : /\ <<t, "game">> \in DOMAIN vertices
                       /\ t # call.args[1][1]
                       /\ t \notin TitlesOf(ret)

\* C3: the list recommend_games returns holds exactly the filtered games
\* other than g whose score to g is not zero, each once and paired with that
\* score; scores do not increase along the list and entries of equal score
\* are in ascending order of title.
C3_RecommendGamesOrdered ==
  Returned("recommend_games") =>
    LET g == call.args[1]
        kinds == call.args[2]
        f == call.args[3]
        score(k) == SimilarityScore(vertices, <<g[1], "game">>, k, kinds)
        cand == {k \in GetFilteredGameVertices(vertices, f.max_price, f.platforms,
                                               f.min_rating_score) :
                   k # <<g[1], "game">> /\ score(k) # Zero}
    IN  /\ Range(ret) = {<<k[1], score(k)>> : k \in cand}
        /\ Len(ret) = Cardinality(cand)
        /\ \A i \in 1..Len(ret) : \A j \in 1..Len(ret) :
             i < j => /\ ~FLess(ret[i][2], ret[j][2])
                      /\ ret[i][2] = ret[j][2] => ret[i][1] < ret[j][1]

\* C3 witness: a result of two entries whose first has the greater score and
\* the greater title
C3_Witness ==
  /\ Returned("recommend_games")
  /\ Len(ret) = 2
  /\ FLess(ret[2][2], ret[1][2])
  /\ ret[2][1] < ret[1][1]

\* the score recommend_games(inputs[i]) gives title t, 0.0 when t is not in it
ScoreIn(rec, t) ==
  IF \E j \in 1..Len(rec) : rec[j][1] = t
  THEN rec[CHOOSE j \in 1..Len(rec) : rec[j][1] = t][2]
  ELSE Zero

\* the sum of the scores of title t over the results recs[1..n]
RECURSIVE ScoreSum(_, _, _)
ScoreSum(recs, n, t) ==
  IF n = 0 THEN Zero ELSE FAdd(ScoreSum(recs, n - 1, t), ScoreIn(recs[n], t))

\* the number of results among recs that contain title t
Frequency(recs, t) ==
  Cardinality({i \in 1..Len(recs) : t \in TitlesOf(recs[i])})

\* title t is ranked strictly below title u: lower frequency, or the same
\* frequency and a lower score sum
RankedBelow(recs, t, u) ==
  \/ Frequency(recs, t) < Frequency(recs, u)
  \/ /\ Frequency(recs, t) = Frequency(recs, u)
     /\ FLess(ScoreSum(recs, Len(recs), t), ScoreSum(recs, Len(recs), u))

\* the results of recommend_games for the input games of the last
\* recommend_multiple_games call
ResultsOfInputs ==
  [i \in 1..Len(call.args[1]) |->
     RecommendGames(vertices, call.args[1][i], call.args[3],
                    call.args[4].max_price, call.args[4].platforms,
                    call.args[4].min_rating_score)]

\* C4: recommend_multiple_games returns min(limit, n) distinct titles out of
\* the n recommended ones, in an order in which no title is ranked below a
\* later one, and no title left out is ranked above a returned one; the rank
\* is (frequency, score sum), frequency first.
C4_MultipleGamesRanking ==
  Returned("recommend_multiple_games") =>
    \A recs \in {ResultsOfInputs} :
    LET limit == call.args[2]
        T == UNION {TitlesOf(recs[i]) : i \in 1..Len(recs)}
    IN  /\ Len(ret) = IF limit < Cardinality(T) THEN limit ELSE Cardinality(T)
        /\ Range(ret) \subseteq T
        /\ \A i \in 1..Len(ret) : \A j \in 1..Len(ret) :
             i < j => /\ ret[i] # ret[j]
                      /\ ~RankedBelow(recs, ret[i], ret[j])
                      /\ Frequency(recs, ret[i]) >= Frequency(recs, ret[j])
        /\ \A t \in T \ Range(ret) : \A i \in 1..Len(ret) :
             ~RankedBelow(recs, ret[i], t)

\* C4 witness: a returned title of higher frequency precedes one of lower
\* frequency and higher score sum
C4_Witness ==
  /\ Returned("recommend_multiple_games")
  /\ Len(ret) = 2
  /\ \E recs \in {ResultsOfInputs} :
        /\ Frequency(recs, ret[1]) > Frequency(recs, ret[2])
        /\ FLess(ScoreSum(recs, Len(recs), ret[1]), ScoreSum(recs, Len(recs), ret[2]))

(***************************************************************************)
(* Properties of similarity_score and of the graph, checked under Spec     *)
(***************************************************************************)
\* the items of the neighbours of the vertex with key k whose kind is in kinds
ItemsInKinds(k, kinds) ==
  {vertices[n].item : n \in {m \in vertices[k].neighbours :
                               vertices[m].kind \in Range(kinds)}}

\* the neighbours of the vertex with key k whose kind is in kinds
NeighboursInKinds(k, kinds) ==
  {n \in vertices[k].neighbours : vertices[n].kind \in Range(kinds)}

\* C5: similarity_score(self, other, K) is |A n B| / |A u B| for the sets A, B
\* of the items of self's and other's neighbours of a kind in K, and 0 when
\* either game has degree 0 or A u B is empty.
C5_SimilarityIsJaccard ==
  Returned("get_similarity_score") =>
    LET self  == <<call.args[1], call.args[3]>>
        other == <<call.args[2], call.args[4]>>
        A == ItemsInKinds(self, call.args[5])
        B == ItemsInKinds(other, call.args[5])
    IN  ret = IF \/ vertices[self].neighbours = {}
                 \/ vertices[other].neighbours = {}
                 \/ A \cup B = {}
              THEN Zero
              ELSE Div(Cardinality(A \cap B), Cardinality(A \cup B))

\* C5 witness: the score of two games, one with the genre named 1 and the
\* other with the tag named 1, for kinds that hold genre and tag
C5_Witness ==
  /\ Returned("get_similarity_score")
  /\ call.args[1] # call.args[2]
  /\ {"genre", "tag"} \subseteq Range(call.args[5])
  /\ vertices[<<call.args[1], "game">>].neighbours = {<<1, "genre">>}
  /\ vertices[<<call.args[2], "game">>].neighbours = {<<1, "tag">>}
  /\ ret = Zero

\* C6: the score the last get_similarity_score call returned is the score of
\* the same two games taken in the other order.
C6_SimilaritySymmetric ==
  Returned("get_similarity_score") =>
    ret = GetSimilarityScore(vertices, call.args[2], call.args[1],
                             call.args[4], call.args[3], call.args[5])

\* C6 witness: a score strictly between 0 and 1 of two games with different
\* neighbour sets
C6_Witness ==
  /\ Returned("get_similarity_score")
  /\ call.args[1] # call.args[2]
  /\ vertices[<<call.args[1], "game">>].neighbours #
       vertices[<<call.args[2], "game">>].neighbours
  /\ FLess(Zero, ret)
  /\ FLess(ret, <<1, 1>>)

\* C7: the score lies in [0, 1], is 0 when either game has no neighbour of a
\* kind in K, and is 1 exactly when the two games' neighbour sets restricted
\* to K are equal and not empty.
C7_SimilarityRange ==
  Returned("get_similarity_score") =>
    LET A == NeighboursInKinds(<<call.args[1], call.args[3]>>, call.args[5])
        B == NeighboursInKinds(<<call.args[2], call.args[4]>>, call.args[5])
    IN  /\ ret[2] > 0 /\ 0 <= ret[1] /\ ret[1] <= ret[2]
        /\ (A = {} \/ B = {}) => ret = Zero
        /\ ret = <<1, 1>> <=> (A = B /\ A # {})

\* C7 witness: two different games with score 1, each with a neighbour of a
\* kind outside K
C7_Witness ==
  /\ Returned("get_similarity_score")
  /\ call.args[1] # call.args[2]
  /\ ret = <<1, 1>>
  /\ \E n \in vertices[<<call.args[1], "game">>].neighbours :
        vertices[n].kind \notin Range(call.args[5])

\* C8: the neighbour relation is symmetric, adjacent gives the same answer
\* for (a, b) and (b, a), and after an add_edge(a, b) that did not raise both
\* are true.
C8_NeighboursSymmetric ==
  /\ \A v1 \in DOMAIN vertices : \A v2 \in DOMAIN vertices :
        v1 \in vertices[v2].neighbours <=> v2 \in vertices[v1].neighbours
  /\ \A a \in Keys : \A b \in Keys :
        Adjacent(vertices, a[1], b[1], a[2], b[2])
          = Adjacent(vertices, b[1], a[1], b[2], a[2])
  /\ Returned("add_edge") =>
        /\ Adjacent(vertices, call.args[1], call.args[2], call.args[3], call.args[4])
        /\ Adjacent(vertices, call.args[2], call.args[1], call.args[4], call.args[3])

\* C8 witness: an add_edge between a game and a genre returned, in a graph
\* that also holds two different vertices that are not adjacent
C8_Witness ==
  /\ Returned("add_edge")
  /\ call.args[3] = "game" /\ call.args[4] = "genre"
  /\ \E a \in DOMAIN vertices : \E b \in DOMAIN vertices :
        a # b /\ ~Adjacent(vertices, a[1], b[1], a[2], b[2])

\* C9: no vertex is its own neighbour, and an add_edge whose two endpoints
\* are the same vertex raises.
C9_NoSelfLoop ==
  /\ \A v \in DOMAIN vertices : v \notin vertices[v].neighbours
  /\ (call.op = "add_edge" /\ call.args[1] = call.args[2]
        /\ call.args[3] = call.args[4]) => call.raised

\* C10: every edge joins a vertex of kind game and a vertex of another kind.
C10_EdgesJoinGameAndAttribute ==
  \A v1 \in DOMAIN vertices : \A v2 \in vertices[v1].neighbours :
     (vertices[v1].kind = "game") # (vertices[v2].kind = "game")

(***************************************************************************)
(* Properties of add_vertex and add_edge as steps, checked under Spec       *)
(***************************************************************************)
\* C11: a step that is an add_edge call with an endpoint key that is not in
\* the graph raises ValueError and leaves the graph as it was: no vertex is
\* added and no neighbour set changes.
C11_AddEdgeMissingEndpoint ==
  [][(/\ call'.op = "add_edge"
      /\ \/ <<call'.args[1], call'.args[3]>> \notin DOMAIN vertices
         \/ <<call'.args[2], call'.args[4]>> \notin DOMAIN vertices)
     => (call'.raised /\ vertices' = vertices)]_vars

\* C11 witness: add_edge raised with one endpoint in the graph and the other
\* not, the endpoint that exists having a neighbour
C11_Witness ==
  /\ call.op = "add_edge" /\ call.raised
  /\ <<call.args[1], call.args[3]>> \in DOMAIN vertices
  /\ <<call.args[2], call.args[4]>> \notin DOMAIN vertices
  /\ vertices[<<call.args[1], call.args[3]>>].neighbours # {}

\* C12: a step that is an add_vertex call with a key already in the graph
\* leaves the graph as it was, whatever price, rating score and platform list
\* are passed; and a step that repeats the add_edge call that has just
\* returned (its endpoints in either order) leaves the graph as it was.
C12_AddIdempotent ==
  [][/\ (/\ call'.op = "add_vertex"
          /\ <<call'.args[1], call'.args[2]>> \in DOMAIN vertices)
        => vertices' = vertices
     /\ (/\ Returned("add_edge")
          /\ call'.op = "add_edge"
          /\ \/ call'.args = call.args
             \/ call'.args = <<call.args[2], call.args[1],
                               call.args[4], call.args[3]>>)
        => (~call'.raised /\ vertices' = vertices)]_vars

\* C12 witness: add_vertex was called for a game that has a neighbour, with a
\* price, a rating score and a platform list that are not the stored ones
C12_Witness ==
  /\ call.op = "add_vertex" /\ call.args[2] = "game"
  /\ vertices[<<call.args[1], "game">>].neighbours # {}
  /\ vertices[<<call.args[1], "game">>].price # call.args[3]
  /\ vertices[<<call.args[1], "game">>].rating_score # call.args[4]
  /\ vertices[<<call.args[1], "game">>].platform # call.args[5]

(***************************************************************************)
(* Properties of get_filtered_game_vertices, checked under SpecLoad         *)
(***************************************************************************)
\* a numeric filter argument is given: it is neither None nor 0
NumGiven(o) == o[1] # "None" /\ o[2] # 0

\* a list filter argument is given: it is neither None nor the empty list
ListGiven(o) == o[1] # "None" /\ o[2] # << >>

\* C13: get_filtered_game_vertices returns exactly the vertices of kind game
\* with price <= max_price when max_price is given, a platform in platforms
\* when platforms is given and rating_score >= min_rating_score when that is
\* given, where None, 0 and the empty list are not given; and with a given
\* max_price no game in the list recommend_games returns costs more.
C13_FilteredGameVertices ==
  /\ Returned("get_filtered_game_vertices") =>
       ret = {k \in DOMAIN vertices :
                /\ vertices[k].kind = "game"
                /\ NumGiven(call.args[1]) => vertices[k].price <= call.args[1][2]
                /\ ListGiven(call.args[2]) =>
                     Range(vertices[k].platform) \cap Range(call.args[2][2]) # {}
                /\ NumGiven(call.args[3]) =>
                     vertices[k].rating_score >= call.args[3][2]}
  /\ (Returned("recommend_games") /\ NumGiven(call.args[3].max_price)) =>
       \A i \in 1..Len(ret) :
          vertices[<<ret[i][1], "game">>].price <= call.args[3].max_price[2]

\* C13 witness: with max_price 10, platforms [] and min_rating_score 0 the
\* call returned a game that costs 10 and left out a game of the graph
C13_Witness ==
  /\ Returned("get_filtered_game_vertices")
  /\ call.args = <<Given(10), Given(<< >>), Given(0)>>
  /\ \E k \in ret : vertices[k].price = 10
  /\ \E t \in Titles : <<t, "game">> \in DOMAIN vertices /\ <<t, "game">> \notin ret

====
